---- MODULE Spec2Model ----
(***************************************************************************)
(* Model of scripts/kelkoo_merchant_feed_s1_us.py: one run of the script   *)
(* is import -> fetch_from_kelkoo -> normalize -> write_xml / write_json   *)
(* (timestamped, then latest) -> health.json.                              *)
(*                                                                         *)
(* JSON values are tagged records [ty, s, q, d]; a Python dict is a       *)
(* function from its keys to JSON values.  A call that can raise returns   *)
(* [ok, val]: ok = FALSE carries the exception's name in val.              *)
(***************************************************************************)
EXTENDS Integers, Sequences, FiniteSets, TLC

VARIABLES env, pc, runs, clock, status, body, parsePath, merchants, rows,
          stamp, files, written, httpCalls, error, prev

vars == <<env, pc, runs, clock, status, body, parsePath, merchants, rows,
          stamp, files, written, httpCalls, error, prev>>

(* ------------------------------ bounds -------------------------------- *)
\* number of invocations of the script in one behaviour
MaxRuns == 2
\* last reading of the clock (now_utc), in ticks
MaxClock == 2
\* longest list of raw records built from CoreRecords
MaxRows == 2

(* ---------------------------- JSON values ----------------------------- *)
\* ty is the JSON type; s the literal of a bool or int and the text of a str,
\* q the items of a list, d the members of a dict
NoKeys == [k \in {} |-> ""]
Null == [ty |-> "null", s |-> "", q |-> <<>>, d |-> NoKeys]
JB(b) == [ty |-> "bool", s |-> IF b THEN "true" ELSE "false", q |-> <<>>,
          d |-> NoKeys]
JN(n) == [ty |-> "int", s |-> ToString(n), q |-> <<>>, d |-> NoKeys]
JS(s) == [ty |-> "str", s |-> s, q |-> <<>>, d |-> NoKeys]
JL(q) == [ty |-> "list", s |-> "", q |-> q, d |-> NoKeys]
JD(f) == [ty |-> "dict", s |-> "", q |-> <<>>, d |-> f]

Ok(x) == [ok |-> TRUE, val |-> x]
Raise(e) == [ok |-> FALSE, val |-> e]

\* Python truth value of a JSON value (the operand test of `or`, `if`, `not`)
Truthy(x) ==
  CASE x.ty = "null" -> FALSE
    [] x.ty = "bool" -> x.s = "true"
    [] x.ty = "int" -> x.s # "0"
    [] x.ty = "str" -> x.s # ""
    [] x.ty = "list" -> Len(x.q) > 0
    [] x.ty = "dict" -> DOMAIN x.d # {}

\* a or b
Or(a, b) == IF Truthy(a) THEN a ELSE b

\* d.get(key)
Get(d, key) == IF key \in DOMAIN d THEN d[key] ELSE Null

\* the order in which the keys of a dict are visited: Python keeps insertion
\* order, the dicts of the model are written in this order
KeyOrder ==
  <<"merchant_id", "merchant_name", "domain", "country", "logo", "homepage",
    "updated_at", "merchantId", "root_domain", "website", "country_code",
    "logo_url", "image", "merchant_url",
    "id", "name", "url", "summary", "logoUrl", "websiteId",
    "deliveryCountries", "categories", "directoryLinks", "supportsLinks",
    "supportsLinksOfferMatch", "supportsLinksMerchantMatch",
    "forbiddenTrafficTypes", "targetCos", "currency",
    "visibilityRecentlyChanged", "visible", "isNew", "merchantEstimatedCpc",
    "merchantMobileEstimatedCpc", "merchantTier", "topNetworkCpc",
    "topNetworkCpcLinks", "topNetworkVpl", "topNetworkVplLinks",
    "cpcsBySubId", "cpcsBySubIdForLinks", "spotlight", "prospectionValues",
    "numberOfOffers", "estimatedCpc", "mobileEstimatedCpc", "urlTemplate",
    "eventType", "eventStartDate", "eventEndDate", "simulatedVpl",
    "simulatedDesktopCpc", "simulatedMobileCpc",
    "merchants", "data", "items", "results", "a">>

DictKeys(d) == SelectSeq(KeyOrder, LAMBDA k : k \in DOMAIN d)

RECURSIVE Join(_, _)
Join(q, sep) ==
  IF Len(q) = 0 THEN ""
  ELSE IF Len(q) = 1 THEN q[1]
  ELSE q[1] \o sep \o Join(Tail(q), sep)

\* repr(x), as str() uses it for the elements of a list or dict
RECURSIVE PyRepr(_)
PyRepr(x) ==
  CASE x.ty = "null" -> "None"
    [] x.ty = "bool" -> IF x.s = "true" THEN "True" ELSE "False"
    [] x.ty = "int" -> x.s
    [] x.ty = "str" -> "'" \o x.s \o "'"
    [] x.ty = "list" ->
         "[" \o Join([i \in 1..Len(x.q) |-> PyRepr(x.q[i])], ", ") \o "]"
    [] x.ty = "dict" ->
         LET ks == DictKeys(x.d)
         IN "{" \o Join([i \in 1..Len(ks) |->
                          "'" \o ks[i] \o "': " \o PyRepr(x.d[ks[i]])], ", ")
                \o "}"

\* str(x)
PyStr(x) == IF x.ty = "str" THEN x.s ELSE PyRepr(x)

\* json.dumps(x, ensure_ascii=False, separators=(",", ":"))
RECURSIVE JsonDumps(_)
JsonDumps(x) ==
  CASE x.ty = "null" -> "null"
    [] x.ty = "bool" -> x.s
    [] x.ty = "int" -> x.s
    [] x.ty = "str" -> "\"" \o x.s \o "\""
    [] x.ty = "list" ->
         "[" \o Join([i \in 1..Len(x.q) |-> JsonDumps(x.q[i])], ",") \o "]"
    [] x.ty = "dict" ->
         LET ks == DictKeys(x.d)
         IN "{" \o Join([i \in 1..Len(ks) |->
                          "\"" \o ks[i] \o "\":" \o JsonDumps(x.d[ks[i]])], ",")
                \o "}"

\* s.upper(), on the strings of the model
Upper(s) ==
  CASE s = "us" -> "US"
    [] s = "de" -> "DE"
    [] s = "Fr" -> "FR"
    [] OTHER -> s

\* s.strip(), on the strings of the model
Strip(s) ==
  CASE s = " TRUE " -> "TRUE"
    [] s = " m1 " -> "m1"
    [] s = " " -> ""
    [] OTHER -> s

\* s.lower(), on the strings of the model
Lower(s) ==
  CASE s = "TRUE" -> "true"
    [] s = "Yes" -> "yes"
    [] s = "True" -> "true"
    [] s = "False" -> "false"
    [] OTHER -> s

\* the characters of s, as iterating a str yields them
Chars(s) ==
  CASE s = "" -> <<>>
    [] s = "US" -> <<"U", "S">>
    [] s = "x" -> <<"x">>
    [] OTHER -> <<s>>

(* ------------------- helpers (source lines 92-116) -------------------- *)
DEFAULT_COUNTRY == "us"

\* _sg without line 95: a null value is returned as it is
_sg_keep_null(d, key, default) == IF key \in DOMAIN d THEN d[key] ELSE default

\* _sg(d, key, default): "Safe get with default"
_sg(d, key, default) ==
  LET val == IF key \in DOMAIN d THEN d[key] ELSE default
  IN IF val.ty = "null" THEN default ELSE val

\* _to_bool(v)
_to_bool(x) ==
  CASE x.ty = "bool" -> x.s = "true"
    [] x.ty = "int" -> x.s # "0"
    [] x.ty = "str" -> Lower(Strip(x.s)) \in {"1", "true", "yes"}
    [] OTHER -> FALSE

\* now_utc().isoformat(): the text of a clock reading
isoformat(t) == "T" \o ToString(t)

(* --------------------- normalize (lines 119-241) ---------------------- *)
\* the legacy/compat block, lines 127-132; d is the raw record's dict
merchant_id(d) ==
  JS(PyStr(Or(Or(Or(Get(d, "merchant_id"), Get(d, "merchantId")),
                 Get(d, "id")), JS(""))))

merchant_name(d) ==
  Or(Or(Or(Get(d, "merchant_name"), Get(d, "merchantName")), Get(d, "name")),
     JS(""))

\* domain with root_domain tried before domain
domain_root_first(d) ==
  Or(Or(Or(Get(d, "root_domain"), Get(d, "domain")), Get(d, "website")),
     JS(""))

domain(d) ==
  Or(Or(Or(Get(d, "domain"), Get(d, "root_domain")), Get(d, "website")),
     JS(""))

\* line 130: the operand of .upper(), which exists on str only
country_raw(d) ==
  Or(Or(Get(d, "country"), Get(d, "country_code")), JS(DEFAULT_COUNTRY))

country(d) == JS(Upper(country_raw(d).s))

logo(d) ==
  Or(Or(Or(Or(Get(d, "logo"), Get(d, "logo_url")), Get(d, "image")),
        Get(d, "logoUrl")), JS(""))

homepage(d) ==
  Or(Or(Or(Get(d, "homepage"), Get(d, "merchant_url")), Get(d, "url")),
     IF Truthy(domain(d)) THEN JS("https://" \o PyStr(domain(d))) ELSE JS(""))

\* `_sg(r, key, []) or []`, `_sg(r, key, {}) or {}`
SgOr(d, key, empty) == Or(_sg(d, key, empty), empty)

\* lines 135-140, 149, 153-159: the defaults of the fields read with _sg alone
KelkooDefaults(d) ==
  [id |-> Or(merchant_id(d), JN(0)),
   name |-> merchant_name(d),
   url |-> homepage(d),
   summary |-> JS(""),
   logoUrl |-> logo(d),
   websiteId |-> JN(0),
   currency |-> JS(""),
   merchantEstimatedCpc |-> JN(0),
   merchantMobileEstimatedCpc |-> JN(0),
   merchantTier |-> JS(""),
   topNetworkCpc |-> JN(0),
   topNetworkCpcLinks |-> JN(0),
   topNetworkVpl |-> JN(0),
   topNetworkVplLinks |-> JN(0)]

\* lines 144-146, 151-152, 162: the defaults of the fields read with _to_bool
FlagDefaults ==
  [supportsLinks |-> FALSE,
   supportsLinksOfferMatch |-> FALSE,
   supportsLinksMerchantMatch |-> FALSE,
   visible |-> TRUE,
   isNew |-> FALSE,
   spotlight |-> FALSE]

\* lines 141, 147: lists stored as they are
PlainLists == {"deliveryCountries", "forbiddenTrafficTypes"}

\* lines 148, 150
Objects == {"targetCos", "visibilityRecentlyChanged"}

\* lines 183-239: the lists rebuilt item by item, in the order of the dict
\* literal, each with the keys and defaults of its items
MappedLists ==
  <<"categories", "directoryLinks", "cpcsBySubId", "cpcsBySubIdForLinks",
    "prospectionValues">>

ItemDefaults(key) ==
  CASE key = "categories" ->
         [id |-> JN(0), name |-> JS(""), numberOfOffers |-> JN(0),
          estimatedCpc |-> JN(0), mobileEstimatedCpc |-> JN(0)]
    [] key = "directoryLinks" ->
         [urlTemplate |-> JS(""), estimatedCpc |-> JN(0),
          mobileEstimatedCpc |-> JN(0), eventType |-> JS(""),
          eventStartDate |-> JN(0), eventEndDate |-> JN(0)]
    [] key \in {"cpcsBySubId", "cpcsBySubIdForLinks"} ->
         [id |-> JS(""), estimatedCpc |-> JN(0), mobileEstimatedCpc |-> JN(0)]
    [] key = "prospectionValues" ->
         [simulatedVpl |-> JS(""), simulatedDesktopCpc |-> JN(0),
          simulatedMobileCpc |-> JN(0)]

\* what `for x in k` yields: the items of a list, the characters of a str, the
\* keys of a dict
Items(k) ==
  CASE k.ty = "list" -> k.q
    [] k.ty = "str" -> [i \in 1..Len(Chars(k.s)) |-> JS(Chars(k.s)[i])]
    [] k.ty = "dict" -> [i \in 1..Len(DictKeys(k.d)) |-> JS(DictKeys(k.d)[i])]
    [] OTHER -> <<>>

\* the exception of `for x in k: ... x.get(...) ...` ("" for none): an int, a
\* bool or None is not iterable, and .get exists on dicts only (needDict)
ItemsError(k, needDict) ==
  IF k.ty \in {"int", "bool", "null"} THEN "TypeError"
  ELSE IF needDict /\ \E i \in 1..Len(Items(k)) : Items(k)[i].ty # "dict"
       THEN "AttributeError"
       ELSE ""

\* the first exception, in evaluation order, among es ("" for none)
FirstError(es) ==
  IF \A i \in 1..Len(es) : es[i] = "" THEN ""
  ELSE es[CHOOSE i \in 1..Len(es) :
            es[i] # "" /\ \A j \in 1..(i - 1) : es[j] = ""]

\* the item dicts of one rebuilt list
norm_items(key, k) ==
  JL([i \in 1..Len(Items(k)) |->
        JD([f \in DOMAIN ItemDefaults(key) |->
              _sg(Items(k)[i].d, f, ItemDefaults(key)[f])])])

\* the exception one iteration of the loop of line 125 raises on the raw
\* record r, "" for none: r.get needs a dict, .upper() a str, and each
\* rebuilt list items that are dicts
normalize_row_error(r) ==
  IF r.ty # "dict" THEN "AttributeError"
  ELSE IF country_raw(r.d).ty # "str" THEN "AttributeError"
  ELSE FirstError([i \in 1..Len(MappedLists) |->
                     ItemsError(SgOr(r.d, MappedLists[i], JL(<<>>)), TRUE)])

\* the record one iteration appends to out, lines 165-240
normalize_row(d, now) ==
  LET legacy == [merchant_id |-> merchant_id(d),
                 merchant_name |-> merchant_name(d),
                 domain |-> domain(d),
                 country |-> country(d),
                 logo |-> logo(d),
                 homepage |-> homepage(d),
                 updated_at |-> JS(isoformat(now))]
      keys == DOMAIN legacy \cup DOMAIN KelkooDefaults(d)
              \cup DOMAIN FlagDefaults \cup PlainLists \cup Objects
              \cup {MappedLists[i] : i \in 1..Len(MappedLists)}
  IN [k \in keys |->
        IF k \in DOMAIN legacy THEN legacy[k]
        ELSE IF k \in DOMAIN FlagDefaults
        THEN JB(_to_bool(_sg(d, k, JB(FlagDefaults[k]))))
        ELSE IF k \in PlainLists THEN SgOr(d, k, JL(<<>>))
        ELSE IF k \in Objects THEN SgOr(d, k, JD(NoKeys))
        ELSE IF k \in DOMAIN KelkooDefaults(d)
        THEN _sg(d, k, KelkooDefaults(d)[k])
        ELSE norm_items(k, SgOr(d, k, JL(<<>>)))]

\* the loop of lines 124-241: out grows by one record per raw record, in
\* order; nows[i] is the clock reading of the i-th iteration
RECURSIVE normalize_loop(_, _, _, _)
normalize_loop(raw, nows, i, out) ==
  IF i > Len(raw) THEN Ok(out)
  ELSE IF normalize_row_error(raw[i]) # ""
       THEN Raise(normalize_row_error(raw[i]))
       ELSE normalize_loop(raw, nows, i + 1,
                           Append(out, normalize_row(raw[i].d, nows[i])))

\* normalize with out.insert(0, ...) for out.append(...)
normalize_prepend(raw, nows) ==
  LET res == normalize_loop(raw, nows, 1, <<>>)
  IN IF res.ok
     THEN Ok([i \in 1..Len(res.val) |-> res.val[Len(res.val) + 1 - i]])
     ELSE res

normalize(raw, nows) == normalize_loop(raw, nows, 1, <<>>)

(* ---------------- write_xml, write_json (lines 106-329) --------------- *)
\* XML nodes written: a leaf with its text, or a container with its items
XT(s) == [ty |-> "text", s |-> s, q |-> <<>>]
XC(q) == [ty |-> "elems", s |-> "", q |-> q]

\* _text(elem, name, value): the text given to the new sub-element
_text(value) == XT(IF value.ty = "null" THEN "" ELSE PyStr(value))

\* _dict_as_json(parent, name, obj)
_dict_as_json(obj) == _text(JS(JsonDumps(Or(obj, JD(NoKeys)))))

\* the flag elements: str(_to_bool(...)).lower()
FlagText(x) == _text(JS(Lower(PyStr(JB(_to_bool(x))))))

\* lines 275-289, 302, 309-316: the elements written with _text, each with
\* the row key it reads and the default of its _sg
XmlTextFields ==
  [MerchantID |-> [key |-> "merchant_id", default |-> JS("")],
   MerchantName |-> [key |-> "merchant_name", default |-> JS("")],
   Domain |-> [key |-> "domain", default |-> JS("")],
   Country |-> [key |-> "country", default |-> JS("")],
   LogoUrlCompat |-> [key |-> "logo", default |-> JS("")],
   HomepageUrlCompat |-> [key |-> "homepage", default |-> JS("")],
   UpdatedAt |-> [key |-> "updated_at", default |-> JS("")],
   Id |-> [key |-> "id", default |-> JN(0)],
   Name |-> [key |-> "name", default |-> JS("")],
   Url |-> [key |-> "url", default |-> JS("")],
   Summary |-> [key |-> "summary", default |-> JS("")],
   LogoUrl |-> [key |-> "logoUrl", default |-> JS("")],
   WebsiteId |-> [key |-> "websiteId", default |-> JN(0)],
   Currency |-> [key |-> "currency", default |-> JS("")],
   MerchantEstimatedCpc |->
     [key |-> "merchantEstimatedCpc", default |-> JN(0)],
   MerchantMobileEstimatedCpc |->
     [key |-> "merchantMobileEstimatedCpc", default |-> JN(0)],
   MerchantTier |-> [key |-> "merchantTier", default |-> JS("")],
   TopNetworkCpc |-> [key |-> "topNetworkCpc", default |-> JN(0)],
   TopNetworkCpcLinks |-> [key |-> "topNetworkCpcLinks", default |-> JN(0)],
   TopNetworkVpl |-> [key |-> "topNetworkVpl", default |-> JN(0)],
   TopNetworkVplLinks |-> [key |-> "topNetworkVplLinks", default |-> JN(0)]]

\* lines 295-297, 306-307, 321
XmlFlagFields ==
  [SupportsLinks |-> [key |-> "supportsLinks", default |-> JB(FALSE)],
   SupportsLinksOfferMatch |->
     [key |-> "supportsLinksOfferMatch", default |-> JB(FALSE)],
   SupportsLinksMerchantMatch |->
     [key |-> "supportsLinksMerchantMatch", default |-> JB(FALSE)],
   Visible |-> [key |-> "visible", default |-> JB(TRUE)],
   IsNew |-> [key |-> "isNew", default |-> JB(FALSE)],
   Spotlight |-> [key |-> "spotlight", default |-> JB(FALSE)]]

\* lines 301, 304
XmlJsonFields ==
  [TargetCos |-> "targetCos",
   VisibilityRecentlyChanged |-> "visibilityRecentlyChanged"]

\* lines 290-293, 299, 318-319, 322: the containers written with _list, in
\* the order of the calls, each with the row key it reads and its map_fn
XmlLists ==
  <<[tag |-> "DeliveryCountries", key |-> "deliveryCountries",
     fn |-> "code"],
    [tag |-> "Categories", key |-> "categories", fn |-> "map_category"],
    [tag |-> "DirectoryLinks", key |-> "directoryLinks",
     fn |-> "map_directory_link"],
    [tag |-> "ForbiddenTrafficTypes", key |-> "forbiddenTrafficTypes",
     fn |-> "name"],
    [tag |-> "CpcsBySubId", key |-> "cpcsBySubId", fn |-> "map_cpc_by_subid"],
    [tag |-> "CpcsBySubIdForLinks", key |-> "cpcsBySubIdForLinks",
     fn |-> "map_cpc_by_subid"],
    [tag |-> "ProspectionValues", key |-> "prospectionValues",
     fn |-> "map_prospection"]>>

\* lines 245-268 and the lambdas of lines 290 and 299: the sub-elements a
\* map_fn writes, each with the item key it reads and the default of its _sg
\* (the lambdas write the item itself)
MapFields(fn) ==
  CASE fn = "map_category" ->
         [Id |-> [key |-> "id", default |-> JN(0)],
          Name |-> [key |-> "name", default |-> JS("")],
          NumberOfOffers |-> [key |-> "numberOfOffers", default |-> JN(0)],
          EstimatedCpc |-> [key |-> "estimatedCpc", default |-> JN(0)],
          MobileEstimatedCpc |->
            [key |-> "mobileEstimatedCpc", default |-> JN(0)]]
    [] fn = "map_directory_link" ->
         [UrlTemplate |-> [key |-> "urlTemplate", default |-> JS("")],
          EstimatedCpc |-> [key |-> "estimatedCpc", default |-> JN(0)],
          MobileEstimatedCpc |->
            [key |-> "mobileEstimatedCpc", default |-> JN(0)],
          EventType |-> [key |-> "eventType", default |-> JS("")],
          EventStartDate |-> [key |-> "eventStartDate", default |-> JN(0)],
          EventEndDate |-> [key |-> "eventEndDate", default |-> JN(0)]]
    [] fn = "map_cpc_by_subid" ->
         [Id |-> [key |-> "id", default |-> JS("")],
          EstimatedCpc |-> [key |-> "estimatedCpc", default |-> JN(0)],
          MobileEstimatedCpc |->
            [key |-> "mobileEstimatedCpc", default |-> JN(0)]]
    [] fn = "map_prospection" ->
         [SimulatedVpl |-> [key |-> "simulatedVpl", default |-> JS("")],
          SimulatedDesktopCpc |->
            [key |-> "simulatedDesktopCpc", default |-> JN(0)],
          SimulatedMobileCpc |->
            [key |-> "simulatedMobileCpc", default |-> JN(0)]]
    [] fn = "code" -> [Code |-> [key |-> "", default |-> Null]]
    [] fn = "name" -> [Name |-> [key |-> "", default |-> Null]]

\* _list(parent, name, items, item_tag, map_fn): one item element per item of
\* `items or []`
_list(items, fn) ==
  LET its == Items(Or(items, JL(<<>>)))
  IN XC([i \in 1..Len(its) |->
           [t \in DOMAIN MapFields(fn) |->
              IF fn \in {"code", "name"} THEN _text(its[i])
              ELSE _text(_sg(its[i].d, MapFields(fn)[t].key,
                             MapFields(fn)[t].default))]])

\* the exception building the Merchant element of row r raises, "" for none
xml_merchant_error(r) ==
  FirstError([i \in 1..Len(XmlLists) |->
                ItemsError(Or(_sg(r, XmlLists[i].key, JL(<<>>)), JL(<<>>)),
                           XmlLists[i].fn \notin {"code", "name"})])

\* the Merchant element of row r, lines 272-322
xml_merchant(r) ==
  LET lists == {XmlLists[i].tag : i \in 1..Len(XmlLists)}
      tags == DOMAIN XmlTextFields \cup DOMAIN XmlFlagFields
              \cup DOMAIN XmlJsonFields \cup lists
  IN [t \in tags |->
        IF t \in DOMAIN XmlTextFields
        THEN _text(_sg(r, XmlTextFields[t].key, XmlTextFields[t].default))
        ELSE IF t \in DOMAIN XmlFlagFields
        THEN FlagText(_sg(r, XmlFlagFields[t].key, XmlFlagFields[t].default))
        ELSE IF t \in DOMAIN XmlJsonFields
        THEN _dict_as_json(_sg(r, XmlJsonFields[t], JD(NoKeys)))
        ELSE LET l == XmlLists[CHOOSE i \in 1..Len(XmlLists) :
                                 XmlLists[i].tag = t]
             IN _list(_sg(r, l.key, JL(<<>>)), l.fn)]

\* files: what a path holds. form says which of rows (a JSON snapshot), doc
\* (an XML snapshot) and health (the health record) is the content
NoDoc == [updated |-> "", merchants |-> <<>>]
NoHealth == [last_count |-> 0, last_updated |-> "", status |-> "", note |-> ""]
Absent == [form |-> "absent", rows |-> <<>>, doc |-> NoDoc, health |-> NoHealth]

\* the exception write_xml(rows, path) raises, "" for none
write_xml_error(rs) ==
  FirstError([i \in 1..Len(rs) |-> xml_merchant_error(rs[i])])

\* write_xml leaving out the rows without a merchant_id
write_xml_skip_anonymous(old, rs, now) ==
  LET kept == SelectSeq(rs, LAMBDA r : r.merchant_id.s # "")
  IN [form |-> "xml", rows |-> <<>>,
      doc |-> [updated |-> isoformat(now),
               merchants |-> [i \in 1..Len(kept) |-> xml_merchant(kept[i])]],
      health |-> NoHealth]

\* write_xml(rows, path): the document written to path, one Merchant element
\* per row in order (old is what path held: the tree is built first and
\* written whole on line 324)
write_xml(old, rs, now) ==
  [form |-> "xml", rows |-> <<>>,
   doc |-> [updated |-> isoformat(now),
            merchants |-> [i \in 1..Len(rs) |-> xml_merchant(rs[i])]],
   health |-> NoHealth]

\* write_json with path opened with "a": the rows follow those path held
write_json_append(old, rs) ==
  [form |-> "json", rows |-> old.rows \o rs, doc |-> NoDoc,
   health |-> NoHealth]

\* write_json(rows, path): path is opened with "w", so what it held is gone
write_json(old, rs) ==
  [form |-> "json", rows |-> rs, doc |-> NoDoc, health |-> NoHealth]

(* ----------------- fetch_from_kelkoo (lines 42-89) -------------------- *)
\* An HTTP body is the JSON value or the XML tree its text denotes, or
\* neither: r.json() succeeds on the first only, ET.fromstring on the second.
\* an element of an XML document received
Elem(t, txt, ks) == [kids |-> ks, tag |-> t, text |-> txt]
NoElem == Elem("", "", <<>>)

JsonBody(x) == [fmt |-> "json", json |-> x, xml |-> NoElem]
XmlBody(e) == [fmt |-> "xml", json |-> Null, xml |-> e]
Garbage == [fmt |-> "garbage", json |-> Null, xml |-> NoElem]
NoBody == [fmt |-> "none", json |-> Null, xml |-> NoElem]

\* the elements below e, in document order
RECURSIVE Descendants(_)
Descendants(e) ==
  LET F[i \in 0..Len(e.kids)] ==
        IF i = 0 THEN <<>>
        ELSE F[i - 1] \o <<e.kids[i]>> \o Descendants(e.kids[i])
  IN F[Len(e.kids)]

\* root.findall(".//Merchant")
FindAllMerchant(root) ==
  SelectSeq(Descendants(root), LAMBDA e : e.tag = "Merchant")

\* (m.findtext(tag) or "").strip(): the text of the first child named tag
FindTextStrip(m, t) ==
  LET hit == {i \in 1..Len(m.kids) : m.kids[i].tag = t}
  IN IF hit = {} THEN ""
     ELSE Strip(m.kids[CHOOSE i \in hit : \A j \in hit : i <= j].text)

\* lines 81-88
xml_record(m) ==
  JD([merchant_id |-> JS(FindTextStrip(m, "MerchantID")),
      merchant_name |-> JS(FindTextStrip(m, "MerchantName")),
      domain |-> JS(FindTextStrip(m, "Domain")),
      country |-> JS(FindTextStrip(m, "Country")),
      logo |-> JS(FindTextStrip(m, "LogoUrl")),
      homepage |-> JS(FindTextStrip(m, "HomepageUrl"))])

\* line 67
ContainerKeys == <<"merchants", "data", "items", "results">>

\* lines 63-75: what the try block returns; ok = FALSE when it returns
\* nothing, because r.json() raised ValueError or because data is neither a
\* dict nor a list
try_json(b) ==
  IF b.fmt # "json" THEN Raise("ValueError")
  ELSE LET data == b.json
           hit == {i \in 1..Len(ContainerKeys) :
                     /\ data.ty = "dict"
                     /\ ContainerKeys[i] \in DOMAIN data.d
                     /\ data.d[ContainerKeys[i]].ty = "list"}
       IN CASE data.ty = "dict" /\ hit # {} ->
                 Ok(data.d[ContainerKeys[CHOOSE i \in hit :
                                           \A j \in hit : i <= j]].q)
            [] data.ty = "dict" /\ hit = {} -> Ok(<<data>>)
            [] data.ty = "list" -> Ok(data.q)
            [] OTHER -> Raise("fallthrough")

\* lines 77-89: the XML fallback
parse_xml(b) ==
  IF b.fmt # "xml" THEN Raise("ParseError")
  ELSE LET ms == FindAllMerchant(b.xml)
       IN Ok([i \in 1..Len(ms) |-> xml_record(ms[i])])

\* lines 62-89: the list returned or the exception raised, and the parser
\* that decided it
parse_body(b) ==
  LET j == try_json(b)
  IN IF j.ok THEN [ok |-> TRUE, val |-> j.val, path |-> "json"]
     ELSE [ok |-> parse_xml(b).ok, val |-> parse_xml(b).val, path |-> "xml"]

\* config_error without the check of line 45
config_error_token_only(e) ==
  IF e.token = "" THEN Raise("RuntimeError: KELKOO_TOKEN_1 is not set")
  ELSE Ok(TRUE)

\* lines 43-46: the configuration error raised before the request, if any
config_error(e) ==
  IF e.token = "" THEN Raise("RuntimeError: KELKOO_TOKEN_1 is not set")
  ELSE IF e.url = ""
       THEN Raise("RuntimeError: KELKOO_MERCHANT_FEED_URL is not set")
       ELSE Ok(TRUE)

\* lines 14-17: REQUIRED_ENVS names the token only
import_error(e) ==
  IF e.token = "" THEN Raise("RuntimeError: Missing required envs")
  ELSE Ok(TRUE)

\* line 60, r.raise_for_status(): HTTPError for a 4xx or 5xx status
raise_for_status(st) ==
  IF 400 <= st /\ st < 600 THEN Raise("HTTPError") ELSE Ok(TRUE)

(* --------------------------- the inputs ------------------------------- *)
Merge(f, g) ==
  [k \in DOMAIN f \cup DOMAIN g |-> IF k \in DOMAIN f THEN f[k] ELSE g[k]]

\* every dict over a subset of keys with values in vals
Dicts(keys, vals) == UNION {[K -> vals] : K \in SUBSET keys}

\* raw records used in lists of several records
RFull ==
  JD([merchant_id |-> JS("m1"), merchant_name |-> JS("Shop"),
      domain |-> JS("a.com"), country |-> JS("de"), logo |-> JS("l.png"),
      id |-> JN(7), name |-> JS("Shop7"),
      deliveryCountries |-> JL(<<JS("US"), JS("DE")>>),
      categories |-> JL(<<JD([id |-> JN(3), name |-> JS("Toys")])>>),
      supportsLinks |-> JB(TRUE), visible |-> JB(FALSE),
      targetCos |-> JD([a |-> JN(1)]),
      cpcsBySubId |-> JL(<<JD([id |-> JS("s1")]), JD(NoKeys)>>),
      spotlight |-> JS("Yes")])
RAlias ==
  JD([merchant_id |-> JS(""), merchantId |-> JS("m2"), country |-> JS(""),
      country_code |-> JS("Fr"), website |-> JS("b.com"), name |-> JS("N"),
      visible |-> Null, categories |-> Null])
REmpty == JD(NoKeys)
RBadCountry == JD([country |-> JN(5)])
RPass == JD([deliveryCountries |-> JS("US"), targetCos |-> JS("x")])
RNoIter == JD([forbiddenTrafficTypes |-> JN(5)])

CoreRecords == {RFull, RAlias, REmpty, RBadCountry, RPass, RNoIter}

FlagKeys ==
  {"supportsLinks", "supportsLinksOfferMatch", "supportsLinksMerchantMatch",
   "visible", "isNew", "spotlight"}
MappedListKeys ==
  {"categories", "directoryLinks", "cpcsBySubId", "cpcsBySubIdForLinks",
   "prospectionValues"}
PlainListKeys == {"deliveryCountries", "forbiddenTrafficTypes"}
ListKeys == MappedListKeys \cup PlainListKeys
ObjectKeys == {"targetCos", "visibilityRecentlyChanged"}
ScalarKeys ==
  {"summary", "websiteId", "currency", "merchantEstimatedCpc",
   "merchantMobileEstimatedCpc", "merchantTier", "topNetworkCpc",
   "topNetworkCpcLinks", "topNetworkVpl", "topNetworkVplLinks"}

FlagVals ==
  {Null, JB(TRUE), JB(FALSE), JN(0), JN(1), JS("1"), JS(" TRUE "), JS("Yes"),
   JS("no"), JS(""), JL(<<>>), JL(<<JN(1)>>)}
ListVals ==
  {Null, JL(<<>>), JL(<<JD([id |-> JN(3)])>>),
   JL(<<JD(NoKeys), JD([id |-> Null, estimatedCpc |-> JN(2)])>>),
   JL(<<JS("US")>>), JS("US"), JS(""), JN(5), JN(0), JB(TRUE),
   JD([a |-> JN(1)])}
ObjectVals ==
  {Null, JD(NoKeys), JD([a |-> JN(1)]), JS("x"), JS(""), JN(5),
   JL(<<JN(1)>>)}
ScalarVals == {Null, JS("EUR"), JN(4), JN(0)}

\* raw records exercising one group of fields at a time
RichRecords ==
  {JD(d) : d \in
     Dicts({"merchant_id", "merchantId", "id"},
           {Null, JS(""), JS("m1"), JN(7)})
     \cup Dicts({"merchant_name", "merchantName", "name"},
                {JS(""), JS("Shop"), JS("N")})
     \cup Dicts({"domain", "root_domain", "website"},
                {JS(""), JS("a.com"), JS("b.com")})
     \cup Dicts({"country", "country_code"},
                {Null, JS(""), JS("de"), JS("Fr"), JN(5)})
     \cup Dicts({"logo", "logo_url", "image", "logoUrl"},
                {JS(""), JS("l.png"), JS("k.png")})
     \cup {Merge(h, dm) :
             h \in Dicts({"homepage", "merchant_url", "url"},
                         {JS(""), JS("http://h1"), JS("http://h2")}),
             dm \in Dicts({"domain"}, {JS("a.com")})}
     \cup {[k \in {key} |-> x] : key \in FlagKeys, x \in FlagVals}
     \cup {[k \in {key} |-> x] : key \in ListKeys, x \in ListVals}
     \cup {[k \in {key} |-> x] : key \in ObjectKeys, x \in ObjectVals}
     \cup {[k \in {key} |-> x] : key \in ScalarKeys, x \in ScalarVals}}

\* the lists of raw records normalize is applied to
Payloads ==
  {<<r>> : r \in RichRecords}
  \cup UNION {[1..n -> CoreRecords] : n \in 0..MaxRows}

\* XML documents received
MerchantA ==
  Elem("Merchant", "",
       <<Elem("MerchantID", " m1 ", <<>>), Elem("MerchantName", "Shop", <<>>),
         Elem("Domain", "a.com", <<>>), Elem("Country", "de", <<>>),
         Elem("LogoUrl", "l.png", <<>>),
         Elem("HomepageUrl", "http://h1", <<>>)>>)
MerchantB ==
  Elem("Merchant", "",
       <<Elem("MerchantID", "m2", <<>>), Elem("MerchantID", "m3", <<>>),
         Elem("Country", " ", <<>>)>>)
XmlDocs ==
  {Elem("Merchants", "", <<MerchantA, MerchantB>>),
   Elem("Feed", "", <<Elem("Group", "", <<MerchantB>>), MerchantA>>),
   Elem("Merchants", "", <<>>),
   MerchantA}

\* the bodies the feed endpoint answers with
Bodies ==
  {JsonBody(JL(<<>>)),
   JsonBody(JL(<<RFull, RAlias>>)),
   JsonBody(JL(<<RAlias, RFull>>)),
   JsonBody(JL(<<RFull, RBadCountry>>)),
   JsonBody(JL(<<RNoIter>>)),
   JsonBody(JL(<<JN(1)>>)),
   JsonBody(RFull),
   JsonBody(JD([merchants |-> JL(<<RFull>>), data |-> JL(<<REmpty>>)])),
   JsonBody(JD([data |-> JS("x"), items |-> JL(<<RAlias, RPass>>),
                results |-> JL(<<RFull>>)])),
   JsonBody(JD([data |-> JL(<<>>)])),
   JsonBody(JN(42)),
   JsonBody(Null),
   Garbage}
  \cup {XmlBody(e) : e \in XmlDocs}

\* the bodies the endpoint answers with over several runs
FeedBodies ==
  {JsonBody(JL(<<RFull, RAlias>>)),
   JsonBody(RFull),
   JsonBody(JD([data |-> JS("x"), items |-> JL(<<RAlias, RPass>>)])),
   JsonBody(JL(<<RFull, RBadCountry>>)),
   JsonBody(JL(<<RNoIter>>)),
   JsonBody(JN(42)),
   XmlBody(Elem("Merchants", "", <<MerchantA, MerchantB>>)),
   Garbage}

\* the answers of the endpoint: 0 stands for no answer (requests.get raises)
Statuses == {0, 200, 300, 404, 503}

(* ------------------------- files and clock ---------------------------- *)
\* ts(): the stamp of a clock reading
ts(t) == ToString(t)

XmlPath(st) == "merchants_" \o st \o ".xml"
JsonPath(st) == "merchants_" \o st \o ".json"
HealthPath == "health.json"

FileNames ==
  {HealthPath}
  \cup {XmlPath(st) : st \in {"latest"} \cup {ts(t) : t \in 0..MaxClock}}
  \cup {JsonPath(st) : st \in {"latest"} \cup {ts(t) : t \in 0..MaxClock}}

\* the clock readings of n successive calls of now_utc() starting at t
Readings(n, t) ==
  {[i \in 1..n |-> IF i <= k THEN t ELSE t + 1] :
     k \in IF t < MaxClock THEN 0..n ELSE {n}}

(* -------------------------- the state machine ------------------------- *)
\* env: the two environment variables of the process
\* pc: the statement the process is at; runs: processes started so far
\* status, body: the HTTP response; parsePath: the parser that read the body
\* merchants, rows, stamp: the locals of main
\* files: what each path under docs/ holds; written: the paths this run wrote
\* httpCalls: requests issued by this run; error: the exception that ended it
\* prev: body, rows, files and outcome of the run before this one

Envs == [token : {"", "tok"}, url : {"", "https://feed"}]

NoError == [at |-> "", exc |-> ""]

NoPrev == [done |-> FALSE, body |-> NoBody, rows |-> <<>>,
           files |-> [f \in FileNames |-> Absent]]

Init ==
  /\ env = [token |-> "", url |-> ""]
  /\ pc = "idle"
  /\ runs = 0
  /\ clock = 0
  /\ status = 0
  /\ body = NoBody
  /\ parsePath = "none"
  /\ merchants = <<>>
  /\ rows = <<>>
  /\ stamp = ""
  /\ files = [f \in FileNames |-> Absent]
  /\ written = <<>>
  /\ httpCalls = 0
  /\ error = NoError
  /\ prev = NoPrev

\* an uncaught exception ends the process; at is the statement that raised
Abort(e) == pc' = "aborted" /\ error' = [at |-> pc, exc |-> e]

\* the script is invoked: a new process with its own environment, some time
\* after the process before it ended
StartRun ==
  /\ pc \in {"idle", "done", "aborted"}
  /\ runs < MaxRuns
  /\ \E e \in Envs : env' = e
  /\ pc' = "import"
  /\ runs' = runs + 1
  /\ prev' = [done |-> pc = "done", body |-> body, rows |-> rows,
              files |-> files]
  /\ status' = 0 /\ body' = NoBody /\ parsePath' = "none"
  /\ merchants' = <<>> /\ rows' = <<>> /\ stamp' = ""
  /\ written' = <<>> /\ httpCalls' = 0 /\ error' = NoError
  /\ \E t \in clock..MaxClock : clock' = t
  /\ UNCHANGED files

\* lines 10-31: the module body
Import ==
  /\ pc = "import"
  /\ IF import_error(env).ok THEN pc' = "main" /\ UNCHANGED error
     ELSE Abort(import_error(env).val)
  /\ UNCHANGED <<env, runs, clock, status, body, parsePath, merchants, rows,
                 stamp, files, written, httpCalls, prev>>

\* lines 43-46
CheckConfig ==
  /\ pc = "main"
  /\ IF config_error(env).ok THEN pc' = "get" /\ UNCHANGED error
     ELSE Abort(config_error(env).val)
  /\ UNCHANGED <<env, runs, clock, status, body, parsePath, merchants, rows,
                 stamp, files, written, httpCalls, prev>>

\* what the endpoint sends with status st
ResponseBodies(st) ==
  IF st = 0 THEN {NoBody} ELSE IF st >= 400 THEN {Garbage} ELSE FeedBodies

\* lines 59-60: the GET, which blocks until the answer or the timeout, and
\* raise_for_status
HttpGet ==
  /\ pc = "get"
  /\ httpCalls' = httpCalls + 1
  /\ \E t \in clock..MaxClock : clock' = t
  /\ \E st \in Statuses : \E b \in ResponseBodies(st) :
       /\ status' = st
       /\ body' = b
       /\ IF st = 0 THEN Abort("ConnectionError")
          ELSE IF raise_for_status(st).ok THEN pc' = "parse" /\ UNCHANGED error
          ELSE Abort(raise_for_status(st).val)
  /\ UNCHANGED <<env, runs, parsePath, merchants, rows, stamp, files,
                 written, prev>>

\* lines 62-89
ParseBody ==
  /\ pc = "parse"
  /\ LET res == parse_body(body)
     IN /\ parsePath' = res.path
        /\ IF res.ok
           THEN merchants' = res.val /\ pc' = "normalize" /\ UNCHANGED error
           ELSE Abort(res.val) /\ UNCHANGED merchants
  /\ UNCHANGED <<env, runs, clock, status, body, rows, stamp, files, written,
                 httpCalls, prev>>

\* line 333
Normalize ==
  /\ pc = "normalize"
  /\ \E nows \in Readings(Len(merchants), clock) :
       LET res == normalize(merchants, nows)
       IN /\ clock' = IF Len(nows) = 0 THEN clock ELSE nows[Len(nows)]
          /\ IF res.ok
             THEN rows' = res.val /\ pc' = "stamp" /\ UNCHANGED error
             ELSE Abort(res.val) /\ UNCHANGED rows
  /\ UNCHANGED <<env, runs, status, body, parsePath, merchants, stamp, files,
                 written, httpCalls, prev>>

\* line 335
TakeStamp ==
  /\ pc = "stamp"
  /\ stamp' = ts(clock)
  /\ pc' = "xml_ts"
  /\ UNCHANGED <<env, runs, clock, status, body, parsePath, merchants, rows,
                 files, written, httpCalls, error, prev>>

\* write_xml(rows, path) at statement at, followed by statement next
WriteXml(at, path, next) ==
  /\ pc = at
  /\ IF write_xml_error(rows) = ""
     THEN /\ files' = [files EXCEPT
                         ![path] = write_xml(files[path], rows, clock)]
          /\ written' = Append(written, path)
          /\ pc' = next
          /\ UNCHANGED error
     ELSE Abort(write_xml_error(rows)) /\ UNCHANGED <<files, written>>
  /\ UNCHANGED <<env, runs, clock, status, body, parsePath, merchants, rows,
                 stamp, httpCalls, prev>>

\* write_json(rows, path) at statement at, followed by statement next
WriteJson(at, path, next) ==
  /\ pc = at
  /\ files' = [files EXCEPT ![path] = write_json(files[path], rows)]
  /\ written' = Append(written, path)
  /\ pc' = next
  /\ UNCHANGED <<env, runs, clock, status, body, parsePath, merchants, rows,
                 stamp, httpCalls, error, prev>>

\* line 343 with xml_ts for xml_latest
WriteXmlLatest_to_ts == WriteXml("xml_latest", XmlPath(stamp), "json_latest")

\* lines 341-344
WriteXmlTs == WriteXml("xml_ts", XmlPath(stamp), "json_ts")
WriteJsonTs == WriteJson("json_ts", JsonPath(stamp), "xml_latest")
WriteXmlLatest == WriteXml("xml_latest", XmlPath("latest"), "json_latest")
WriteJsonLatest == WriteJson("json_latest", JsonPath("latest"), "health")

\* lines 347-353: the health record
health_record(rs, now) ==
  [form |-> "health", rows |-> <<>>, doc |-> NoDoc,
   health |-> [last_count |-> Len(rs), last_updated |-> isoformat(now),
               status |-> "ok", note |-> ""]]

WriteHealth ==
  /\ pc = "health"
  /\ files' = [files EXCEPT ![HealthPath] = health_record(rows, clock)]
  /\ written' = Append(written, HealthPath)
  /\ pc' = "done"
  /\ UNCHANGED <<env, runs, clock, status, body, parsePath, merchants, rows,
                 stamp, httpCalls, error, prev>>

Next ==
  \/ StartRun
  \/ Import
  \/ CheckConfig
  \/ HttpGet
  \/ ParseBody
  \/ Normalize
  \/ TakeStamp
  \/ WriteXmlTs
  \/ WriteJsonTs
  \/ WriteXmlLatest
  \/ WriteJsonLatest
  \/ WriteHealth

Spec == Init /\ [][Next]_vars

\* the bodies parsed in SpecData: every shape of Bodies, and every list of
\* Payloads as a JSON array
DataBodies == Bodies \cup {JsonBody(JL(p)) : p \in Payloads}

\* parsing, normalize and the writers on every body of DataBodies: the
\* process has received the body with status 200 and is about to parse it
InitData ==
  /\ env = [token |-> "tok", url |-> "https://feed"]
  /\ pc = "parse"
  /\ runs = 1
  /\ clock = 0
  /\ status = 200
  /\ body \in DataBodies
  /\ parsePath = "none"
  /\ merchants = <<>>
  /\ rows = <<>>
  /\ stamp = ""
  /\ files = [f \in FileNames |-> Absent]
  /\ written = <<>>
  /\ httpCalls = 1
  /\ error = NoError
  /\ prev = NoPrev

NextData ==
  \/ ParseBody
  \/ Normalize
  \/ TakeStamp
  \/ WriteXmlTs
  \/ WriteJsonTs
  \/ WriteXmlLatest
  \/ WriteJsonLatest
  \/ WriteHealth

SpecData == InitData /\ [][NextData]_vars

(* ------------------------------ claims -------------------------------- *)
\* normalize has returned in this run
Normalized ==
  \/ pc \in {"stamp", "xml_ts", "json_ts", "xml_latest", "json_latest",
             "health", "done"}
  \/ pc = "aborted" /\ error.at \in {"xml_ts", "xml_latest"}

\* normalize has returned or raised in this run
NormalizeCalled == Normalized \/ (pc = "aborted" /\ error.at = "normalize")

\* the keys of the fixed output schema: 7 legacy keys and 29 Kelkoo keys
LegacyKeys ==
  {"merchant_id", "merchant_name", "domain", "country", "logo", "homepage",
   "updated_at"}
KelkooKeys ==
  {"id", "name", "url", "summary", "logoUrl", "websiteId",
   "deliveryCountries", "categories", "directoryLinks", "supportsLinks",
   "supportsLinksOfferMatch", "supportsLinksMerchantMatch",
   "forbiddenTrafficTypes", "targetCos", "currency",
   "visibilityRecentlyChanged", "visible", "isNew", "merchantEstimatedCpc",
   "merchantMobileEstimatedCpc", "merchantTier", "topNetworkCpc",
   "topNetworkCpcLinks", "topNetworkVpl", "topNetworkVplLinks",
   "cpcsBySubId", "cpcsBySubIdForLinks", "spotlight", "prospectionValues"}

\* a row without its update time
NoStamp(r) == [r EXCEPT !["updated_at"] = JS("")]

\* C1 (as claimed): normalize is total. Whenever normalize is called on a
\* list of raw records (dicts with any keys and any values) it returns, with
\* one row per record, each holding exactly the 36 keys of the output schema.
C1_NormalizeTotal ==
  (NormalizeCalled /\ \A i \in 1..Len(merchants) : merchants[i].ty = "dict")
  => /\ Normalized
     /\ Len(rows) = Len(merchants)
     /\ \A i \in 1..Len(rows) : DOMAIN rows[i] = LegacyKeys \cup KelkooKeys

\* the first alias of d that is present, else the default
FirstPresent(d, aliases, default) ==
  LET hit == {i \in 1..Len(aliases) : aliases[i] \in DOMAIN d}
  IN IF hit = {} THEN default
     ELSE d[aliases[CHOOSE i \in hit : \A j \in hit : i <= j]]

\* the first alias of d whose value is truthy, else the default
FirstTruthy(d, aliases, default) ==
  LET hit == {i \in 1..Len(aliases) :
                aliases[i] \in DOMAIN d /\ Truthy(d[aliases[i]])}
  IN IF hit = {} THEN default
     ELSE d[aliases[CHOOSE i \in hit : \A j \in hit : i <= j]]

IdAliases == <<"merchant_id", "merchantId", "id">>
NameAliases == <<"merchant_name", "merchantName", "name">>
DomainAliases == <<"domain", "root_domain", "website">>
CountryAliases == <<"country", "country_code">>
LogoAliases == <<"logo", "logo_url", "image", "logoUrl">>
HomepageAliases == <<"homepage", "merchant_url", "url">>

\* C7 (as claimed): each legacy field of a row is the value of the first
\* alias PRESENT in the raw record, the default taking its place only when
\* no alias is present.
C7_FirstPresentAlias ==
  Normalized =>
    \A i \in 1..Len(rows) :
      LET d == merchants[i].d
          dom == FirstPresent(d, DomainAliases, JS(""))
      IN /\ rows[i].merchant_id = JS(PyStr(FirstPresent(d, IdAliases, JS(""))))
         /\ rows[i].merchant_name = FirstPresent(d, NameAliases, JS(""))
         /\ rows[i].domain = dom
         /\ rows[i].country
              = JS(Upper(FirstPresent(d, CountryAliases, JS("us")).s))
         /\ rows[i].logo = FirstPresent(d, LogoAliases, JS(""))
         /\ rows[i].homepage
              = FirstPresent(d, HomepageAliases,
                             IF dom.s # "" THEN JS("https://" \o dom.s)
                             ELSE JS(""))

\* C7 (amended): each legacy field of a row is the value of the first alias
\* whose value is TRUTHY (present and not null, empty, zero or false), the
\* default taking its place when no alias has a truthy value; merchant_id is
\* that value as a string, country that value upper-cased, and the default of
\* homepage is "https://" + domain when the row's domain is truthy, else "".
\* The truthy country value is a string in every row returned: normalize
\* raises on a list of dict records one of which has another value there.
C7_FirstTruthyAlias ==
  /\ (/\ NormalizeCalled
      /\ \A i \in 1..Len(merchants) : merchants[i].ty = "dict"
      /\ \E i \in 1..Len(merchants) :
           FirstTruthy(merchants[i].d, CountryAliases, JS("us")).ty # "str")
     => (pc = "aborted" /\ error.at = "normalize")
  /\ Normalized =>
    \A i \in 1..Len(rows) :
      LET d == merchants[i].d
          dom == FirstTruthy(d, DomainAliases, JS(""))
      IN /\ rows[i].merchant_id = JS(PyStr(FirstTruthy(d, IdAliases, JS(""))))
         /\ rows[i].merchant_name = FirstTruthy(d, NameAliases, JS(""))
         /\ rows[i].domain = dom
         /\ FirstTruthy(d, CountryAliases, JS("us")).ty = "str"
         /\ rows[i].country
              = JS(Upper(FirstTruthy(d, CountryAliases, JS("us")).s))
         /\ rows[i].logo = FirstTruthy(d, LogoAliases, JS(""))
         /\ rows[i].homepage
              = FirstTruthy(d, HomepageAliases,
                            IF Truthy(dom) THEN JS("https://" \o PyStr(dom))
                            ELSE JS(""))

\* C7 witness: normalize returned a row whose domain comes from root_domain
\* although the record also holds an empty domain and a website
C7_Witness ==
  /\ Normalized
  /\ \E i \in 1..Len(rows) :
       /\ {"domain", "root_domain", "website"} \subseteq DOMAIN merchants[i].d
       /\ merchants[i].d["domain"] = JS("")
       /\ merchants[i].d["root_domain"] = JS("b.com")
       /\ merchants[i].d["website"] = JS("a.com")
       /\ rows[i].domain = JS("b.com")

\* the raw record d without the keys whose value is null
DropNulls(d) == [k \in {x \in DOMAIN d : d[x].ty # "null"} |-> d[k]]

\* what C9 says of the flag fields and of null values, for row i
C9_FlagsAndNulls(i) ==
  LET d == merchants[i].d
  IN /\ \A k \in FlagKeys :
          /\ rows[i][k].ty = "bool"
          /\ (k \notin DOMAIN d \/ d[k].ty = "null")
               => rows[i][k] = JB(k = "visible")
          /\ (k \in DOMAIN d /\ d[k].ty = "str")
               => rows[i][k] = JB(Lower(Strip(d[k].s)) \in {"1", "true", "yes"})
     /\ normalize_row_error(JD(DropNulls(d))) = ""
     /\ NoStamp(rows[i]) = NoStamp(normalize_row(DropNulls(d), 0))

\* C9 (as claimed): in every row of normalize the six flag fields are
\* booleans (absent or null gives false, true for visible; a string gives
\* true exactly for "1", "true", "yes" trimmed and lower-cased), a null value
\* is treated like an absent key, the seven list fields are ALWAYS lists and
\* the two object fields are ALWAYS objects.
C9_AlwaysListsAndObjects ==
  Normalized =>
    \A i \in 1..Len(rows) :
      /\ C9_FlagsAndNulls(i)
      /\ \A k \in ListKeys : rows[i][k].ty = "list"
      /\ \A k \in ObjectKeys : rows[i][k].ty = "dict"

\* the raw record d holds under k a truthy value that is not of type ty
WrongType(d, k, ty) == k \in DOMAIN d /\ Truthy(d[k]) /\ d[k].ty # ty

\* C9 (amended): as claimed for the flag fields and for null values; the five
\* list fields rebuilt item by item are always lists; deliveryCountries and
\* forbiddenTrafficTypes are lists and targetCos and
\* visibilityRecentlyChanged are objects unless the raw value is a truthy
\* value of another type, which is then copied to the row unchanged.
C9_ListsUnlessWrongType ==
  Normalized =>
    \A i \in 1..Len(rows) :
      LET d == merchants[i].d
      IN /\ C9_FlagsAndNulls(i)
         /\ \A k \in MappedListKeys : rows[i][k].ty = "list"
         /\ \A k \in PlainListKeys :
              IF WrongType(d, k, "list") THEN rows[i][k] = d[k]
              ELSE rows[i][k].ty = "list"
         /\ \A k \in ObjectKeys :
              IF WrongType(d, k, "dict") THEN rows[i][k] = d[k]
              ELSE rows[i][k].ty = "dict"

\* C9 witness: normalize returned one row whose visible is true for a null
\* and one whose deliveryCountries is the string of the raw record
C9_Witness ==
  /\ Normalized
  /\ \E i, j \in 1..Len(rows) :
       /\ "visible" \in DOMAIN merchants[i].d
       /\ merchants[i].d["visible"] = Null
       /\ rows[i]["visible"] = JB(TRUE)
       /\ rows[i]["categories"] = JL(<<>>)
       /\ "deliveryCountries" \in DOMAIN merchants[j].d
       /\ merchants[j].d["deliveryCountries"] = JS("US")
       /\ rows[j]["deliveryCountries"] = JS("US")

\* the lists raw record r is normalized in for comparison: alone, and after
\* or before one other raw record
C10_Contexts(r) ==
  {<<r>>} \cup {<<o, r>> : o \in CoreRecords} \cup {<<r, o>> : o \in CoreRecords}

\* C10: normalize preserves the record set and treats records independently.
\* Once it has returned, there is one row per raw record, row i is what one
\* iteration makes of raw record i alone, and the raw records are those the
\* fetch returned; as it returns (pc = "stamp"), row i equals, but for
\* updated_at, the row the same raw record gets alone or next to any other
\* raw record.
C10_RecordsIndependent ==
  Normalized =>
    /\ Len(rows) = Len(merchants)
    /\ merchants = parse_body(body).val
    /\ \A i \in 1..Len(rows) :
         /\ NoStamp(rows[i]) = NoStamp(normalize_row(merchants[i].d, 0))
         /\ pc = "stamp" =>
              \A q \in C10_Contexts(merchants[i]) : \A j \in 1..Len(q) :
                LET res == normalize(q, [n \in 1..Len(q) |-> 0])
                IN (q[j] = merchants[i] /\ res.ok)
                     => NoStamp(res.val[j]) = NoStamp(rows[i])

\* C10 witness: normalize returned two rows for two different raw records,
\* in the order of the raw records
C10_Witness ==
  /\ Normalized
  /\ Len(rows) = 2
  /\ merchants[1] = RAlias /\ merchants[2] = RFull
  /\ rows[1].merchant_id = JS("m2") /\ rows[2].merchant_id = JS("m1")

\* the stamps a snapshot pair is written under
SnapshotStamps == {"latest"} \cup {ts(t) : t \in 0..MaxClock}

\* the Merchant element m holds the fields of the JSON record r
C3_SameFields(m, r) ==
  /\ \A t \in {"MerchantID", "MerchantName", "Domain", "Country", "Id",
               "Name", "Url"} :
       m[t] = XT(PyStr(r[XmlTextFields[t].key]))
  /\ \A t \in DOMAIN XmlFlagFields :
       m[t] = XT(IF r[XmlFlagFields[t].key] = JB(TRUE) THEN "true"
                 ELSE "false")
  /\ \A i \in 1..Len(XmlLists) :
       r[XmlLists[i].key].ty = "list"
         => Len(m[XmlLists[i].tag].q) = Len(r[XmlLists[i].key].q)

C6_ObjectRecords(data) ==
  LET hit == {i \in 1..Len(ContainerKeys) :
                /\ ContainerKeys[i] \in DOMAIN data.d
                /\ data.d[ContainerKeys[i]].ty = "list"}
  IN IF hit = {} THEN <<data>>
     ELSE data.d[ContainerKeys[CHOOSE i \in hit : \A j \in hit : i <= j]].q

\* C6 (as claimed): JSON is tried first and XML is parsed only when the body
\* is not JSON. Once the body is parsed: a body that is valid JSON is never
\* handed to the XML parser; a JSON object yields the list under the first of
\* merchants, data, items, results that holds a list, else the object alone;
\* a JSON array yields the array; an XML body yields one record per Merchant
\* element below the root, each with exactly the six legacy keys.
C6_XmlOnlyIfNotJson ==
  parsePath # "none" =>
    /\ body.fmt = "json" => parsePath = "json"
    /\ (body.fmt = "json" /\ body.json.ty = "dict")
         => merchants = C6_ObjectRecords(body.json)
    /\ (body.fmt = "json" /\ body.json.ty = "list")
         => merchants = body.json.q
    /\ body.fmt = "xml"
         => /\ parsePath = "xml"
            /\ Len(merchants) = Len(FindAllMerchant(body.xml))
            /\ \A i \in 1..Len(merchants) :
                 DOMAIN merchants[i].d
                   = {"merchant_id", "merchant_name", "domain", "country",
                      "logo", "homepage"}

\* C4: a run whose token or feed URL is empty never issues the request and
\* writes nothing. From its start on, such a run has sent no HTTP request
\* and written no file, every file is as the run found it, and the run is in
\* the module body, in the configuration checks, or aborted by one of them.
C4_NoConfigNoRequest ==
  (pc # "idle" /\ (env.token = "" \/ env.url = ""))
    => /\ httpCalls = 0
       /\ written = <<>>
       /\ files = prev.files
       /\ pc \in {"import", "main", "aborted"}
       /\ pc = "aborted" => error.at \in {"import", "main"}

\* C4 witness: after a complete run, a run with a token and no URL aborted
\* in fetch_from_kelkoo, the files of the first run still in place
C4_Witness ==
  /\ pc = "aborted" /\ error.at = "main"
  /\ env.token = "tok" /\ env.url = ""
  /\ prev.done
  /\ files[HealthPath].form = "health"
  /\ httpCalls = 0

\* C5 (as claimed): once the GET has returned a status outside 200..299, the
\* run is aborted by the GET statement, the body is not parsed, normalize has
\* produced nothing, and no file is written: all files are as the run found
\* them.
C5_Non2xxAborts ==
  (httpCalls > 0 /\ status # 0 /\ ~(200 <= status /\ status <= 299))
    => /\ pc = "aborted" /\ error.at = "get"
       /\ parsePath = "none"
       /\ rows = <<>>
       /\ written = <<>>
       /\ files = prev.files

\* the paths a run writes, in the order of main
C8_Order ==
  <<XmlPath(stamp), JsonPath(stamp), XmlPath("latest"), JsonPath("latest"),
    HealthPath>>

\* C8: every run follows the order fetch, normalize, serialize, health. The
\* paths written by a run are a prefix of: timestamped XML, timestamped JSON,
\* latest XML, latest JSON, health; nothing is written before the fetch and
\* normalize have returned; the health record is untouched until the four
\* snapshots are written, is written once, with status "ok" and a last_count
\* equal to the number of records of each snapshot and of the raw records.
C8_FetchNormalizeWriteHealth ==
  /\ Len(written) <= Len(C8_Order)
  /\ written = SubSeq(C8_Order, 1, Len(written))
  /\ written # <<>> => (httpCalls = 1 /\ parsePath # "none" /\ Normalized)
  /\ Len(written) < Len(C8_Order)
       => (pc # "done" /\ files[HealthPath] = prev.files[HealthPath])
  /\ pc = "done" => Len(written) = Len(C8_Order)
  /\ Len(written) = Len(C8_Order)
       => /\ pc = "done"
          /\ files[HealthPath].form = "health"
          /\ files[HealthPath].health.status = "ok"
          /\ files[HealthPath].health.last_count = Len(merchants)
          /\ \A st \in {stamp, "latest"} :
               /\ files[JsonPath(st)].form = "json"
               /\ files[XmlPath(st)].form = "xml"
               /\ Len(files[JsonPath(st)].rows) = Len(merchants)
               /\ Len(files[XmlPath(st)].doc.merchants) = Len(merchants)

\* C8 witness: a second run is complete, with two records and its health
\* record replacing that of a first complete run of one record
C8_Witness ==
  /\ pc = "done" /\ runs = 2 /\ prev.done
  /\ Len(merchants) = 2
  /\ prev.files[HealthPath].health.last_count = 1
  /\ files[HealthPath].health.last_count = 2
  /\ Len(written) = 5

\* rows and XML documents without their update times
C2_Rows(rs) == [i \in 1..Len(rs) |-> NoStamp(rs[i])]
C2_Doc(doc) ==
  [updated |-> "",
   merchants |-> [i \in 1..Len(doc.merchants) |->
                    [doc.merchants[i] EXCEPT !["UpdatedAt"] = XT("")]]]

\* C2: two runs on the same payload give the same output but for the update
\* times. When a run completes after a complete run that received the same
\* body, its rows equal those of the earlier run in every field except
\* updated_at, and merchants_latest.json and merchants_latest.xml hold what
\* they held after the earlier run except for updated_at, UpdatedAt and the
\* updated attribute of the root.
C2_SamePayloadSameOutput ==
  (pc = "done" /\ prev.done /\ prev.body = body)
    => /\ C2_Rows(rows) = C2_Rows(prev.rows)
       /\ files[JsonPath("latest")].form = "json"
       /\ C2_Rows(files[JsonPath("latest")].rows)
            = C2_Rows(prev.files[JsonPath("latest")].rows)
       /\ files[XmlPath("latest")].form = "xml"
       /\ C2_Doc(files[XmlPath("latest")].doc)
            = C2_Doc(prev.files[XmlPath("latest")].doc)

\* C2 witness: the second of two complete runs on the same body of two
\* records, at a later time: both latest files differ from those of the first
\* run, in the update times only
C2_Witness ==
  /\ pc = "done" /\ prev.done /\ prev.body = body
  /\ Len(rows) = 2
  /\ rows # prev.rows
  /\ files[JsonPath("latest")] # prev.files[JsonPath("latest")]
  /\ files[XmlPath("latest")] # prev.files[XmlPath("latest")]
====
